---- MODULE Spec2Model ----
(***************************************************************************)
(* redux-state-tree (src/index.js): a tree of states, each with a node, a  *)
(* map of children, local action creators and local thunk creators, is     *)
(* composed into one reducer, one registry of action creators and one      *)
(* registry of thunk creators; createStore hands the reducer to a redux    *)
(* store.                                                                  *)
(*                                                                         *)
(* Strings are TLC strings, so `${path}/${label}` is path \o "/" \o label  *)
(* and action.type === ... is textual equality.  A JavaScript object is a  *)
(* record that carries, beside its properties, the field ref: the number   *)
(* of the dispatch during which the object was allocated (0: allocated     *)
(* when the tree was defined or the store was created).  Two objects at    *)
(* the same place of two states are the same object exactly when their     *)
(* refs are equal; Strip forgets the refs, which leaves deep equality.     *)
(***************************************************************************)
EXTENDS Integers, Sequences, FiniteSets, TLC

VARIABLES
    def,        \* name of the root state given to createStore (see Defs)
    currentState, \* the store's state, what getState() returns
    prev,       \* the state the last dispatch started from
    timeline,   \* every action given to store.dispatch, in order
    inv         \* the invocations of composed thunks, by invocation number

vars == <<def, currentState, prev, timeline, inv>>

----------------------------------------------------------------------------
(* Bounds of the model.                                                    *)

MaxDispatches == 2      \* dispatches in one run of the reducer tree alone
MaxInterleaved == 1     \* dispatches by the application while thunks run
MaxAmount == 2          \* arguments given to a creator are 1..MaxAmount
MaxInvocations == 2     \* invocations of composed thunks in one run
MaxOpDispatches == 1    \* dispatches by the operation of one invocation

----------------------------------------------------------------------------
(* JavaScript values.                                                      *)

Undefined == [undefined |-> TRUE]
Null == [null |-> TRUE]
Num(n) == [num |-> n]
Err(e) == [err |-> e]

IsNullish(v) == v = Undefined \/ v = Null

\* A leaf value { value: n }.
Leaf(r, n) == [ref |-> r, value |-> n]
IsLeaf(v) == DOMAIN v = {"ref", "value"}

\* The object {} of the default parameters (state = {}).
EmptyObject(r) == [ref |-> r]

\* A children object { label: stateNode, ... }.
ChildrenObject(r, m) == [ref |-> r, map |-> m]

\* A state node { node, children }.
StateNode(r, n, c) == [ref |-> r, node |-> n, children |-> c]
IsStateNode(v) == DOMAIN v = {"ref", "node", "children"}

\* o.k: undefined when o has no property k.
Get(o, k) == IF k \in DOMAIN o THEN o[k] ELSE Undefined

\* o[label] on a children object.
GetChild(o, label) ==
    IF "map" \in DOMAIN o /\ label \in DOMAIN o.map THEN o.map[label] ELSE Undefined

\* The numeric value of a payload in state.value += action.payload
\* (n + null is n).
ToNumber(p) == IF "num" \in DOMAIN p THEN p.num ELSE 0

----------------------------------------------------------------------------
(* Object literals given to the library: Object.entries order is kept.     *)

Entry(l, v) == [label |-> l, value |-> v]

Labels(object) == {object[i].label : i \in DOMAIN object}

Lookup(object, l) ==
    object[CHOOSE i \in DOMAIN object :
              object[i].label = l /\ \A j \in DOMAIN object : object[j].label = l => j <= i].value

\* function mapObject(object, callback): result[label] = callback(value, label)
MapObject(object, callback(_, _)) ==
    [l \in Labels(object) |-> callback(Lookup(object, l), l)]

----------------------------------------------------------------------------
(* The update functions a tree is built from.  They are the user's code;   *)
(* the ones below are those of the README plus one that throws.            *)
(*   inc      state.value += 1                     (leaf)                  *)
(*   add      state.value += action.payload        (leaf)                  *)
(*   log      console.log(...), no write           (leaf or child)         *)
(*   incNode  state.node.value += 1                (child override)        *)
(*   prune    state.children = {}                  (child override)        *)
(*   throw    throw new Error()                                            *)

Recipes == {"inc", "add", "log", "incNode", "prune", "throw"}

Returned(v) == [thrown |-> FALSE, val |-> v]
Raised(e) == [thrown |-> TRUE, val |-> Err(e)]

\* What the recipe leaves in the draft of base: the new properties, without
\* the identity of the object.  A TypeError when it reads a property of
\* undefined or null.
Recipe(recipe, base, action) ==
    CASE recipe = "throw" -> Raised("Error")
      [] recipe = "log" -> Returned(base)
      [] recipe = "inc" ->
            IF IsLeaf(base) THEN Returned([base EXCEPT !.value = @ + 1])
            ELSE Raised("TypeError")
      [] recipe = "add" ->
            IF IsLeaf(base)
            THEN Returned([base EXCEPT !.value = @ + ToNumber(action.payload)])
            ELSE Raised("TypeError")
      [] recipe = "incNode" ->
            IF IsStateNode(base) /\ IsLeaf(base.node)
            THEN Returned([base EXCEPT !.node.value = @ + 1])
            ELSE Raised("TypeError")
      [] recipe = "prune" ->
            IF IsNullish(base) THEN Raised("TypeError")
            ELSE Returned([base EXCEPT !.children = ChildrenObject(-1, <<>>)])

\* immer: the objects on the path to a changed property are copied (they are
\* allocated now, at ep), every other object is shared with base; when
\* nothing changed the result is base itself.
Finalize(base, draft, ep) ==
    IF draft = base THEN base
    ELSE IF IsStateNode(base)
    THEN [draft EXCEPT !.ref = ep,
                       !.node = IF draft.node = base.node THEN base.node
                                ELSE [draft.node EXCEPT !.ref = ep],
                       !.children = IF draft.children = base.children THEN base.children
                                    ELSE [draft.children EXCEPT !.ref = ep]]
    ELSE [draft EXCEPT !.ref = ep]

\* produce(reducer)(state, action)
Produce(recipe, base, action, ep) ==
    LET r == Recipe(recipe, base, action)
    IN  IF r.thrown THEN r ELSE Returned(Finalize(base, r.val, ep))

----------------------------------------------------------------------------
(* createNode, createChild, createState: the definition tree.              *)

createNode(initialState, reducers) ==
    [initialState |-> initialState, reducers |-> reducers]

createChild(childState, reducers) ==
    [childState |-> childState, reducers |-> reducers]

createState(node, children, actions, thunks) ==
    [node |-> node, children |-> children, actions |-> actions, thunks |-> thunks]

\* node = createNode(null, {}) of createState's default parameters
DefaultNode == createNode(Null, <<>>)

----------------------------------------------------------------------------
(* The composed reducer.  Beside the value it returns (or the error it     *)
(* throws), a run records the update functions it called (applied) and the *)
(* positions whose state reducer it entered (ran).  A position is the      *)
(* sequence of child labels from the root; a handler is named by the       *)
(* position of its leaf, or of its child link.                             *)

LeafHandler(pos, name) == [kind |-> "leaf", pos |-> pos, name |-> name]
OverrideHandler(pos, name) == [kind |-> "override", pos |-> pos, name |-> name]

Result(thrown, val, applied, ran) ==
    [thrown |-> thrown, val |-> val, applied |-> applied, ran |-> ran]

\* FirstMatch without the separator between path and label.
FirstMatchNoSeparator(reducers, path, type) ==
    LET M == {i \in DOMAIN reducers : type = path \o reducers[i].label}
    IN  IF M = {} THEN 0 ELSE CHOOSE i \in M : \A j \in M : i <= j

\* for (const [label, reducer] of Object.entries(reducers))
\*   if (action.type === `${path}/${label}`) return ...
\* the index of the first entry that matches, 0 when none does.
FirstMatch(reducers, path, type) ==
    LET M == {i \in DOMAIN reducers : type = path \o "/" \o reducers[i].label}
    IN  IF M = {} THEN 0 ELSE CHOOSE i \in M : \A j \in M : i <= j

\* const x = v; body(x): v is computed once, as the code computes it once.
With(v, body(_)) == CHOOSE r \in {body(x) : x \in {v}} : TRUE

\* NodeReducer that returns a copy of the value when no reducer matches.
NodeReducerCopies(node, path, pos, state, action, ep) ==
    LET s == IF state = Undefined THEN node.initialState ELSE state
        i == FirstMatch(node.reducers, path, action.type)
    IN  IF i = 0 THEN Result(FALSE, IF IsLeaf(s) THEN [s EXCEPT !.ref = ep] ELSE s, {}, {})
        ELSE With(Produce(node.reducers[i].value, s, action, ep), LAMBDA p :
                Result(p.thrown, p.val, {LeafHandler(pos, node.reducers[i].label)}, {}))

\* createNode(...).reducer(path)(state = initialState, action)
NodeReducer(node, path, pos, state, action, ep) ==
    LET s == IF state = Undefined THEN node.initialState ELSE state
        i == FirstMatch(node.reducers, path, action.type)
    IN  IF i = 0 THEN Result(FALSE, s, {}, {})
        ELSE With(Produce(node.reducers[i].value, s, action, ep), LAMBDA p :
                Result(p.thrown, p.val, {LeafHandler(pos, node.reducers[i].label)}, {}))

RECURSIVE StateReducer(_, _, _, _, _, _)

\* ChildReducer that hands the parent's path to the nested state.
ChildReducerAtParentPath(child, path, label, pos, state, action, ep) ==
    LET i == FirstMatch(child.reducers, path, action.type)
    IN  IF i = 0
        THEN StateReducer(child.childState, path, pos, state, action, ep)
        ELSE With(Produce(child.reducers[i].value, state, action, ep), LAMBDA p :
                Result(p.thrown, p.val, {OverrideHandler(pos, child.reducers[i].label)}, {}))

\* ChildReducer that never looks at the overrides.
ChildReducerNoOverrides(child, path, label, pos, state, action, ep) ==
    StateReducer(child.childState, path \o "/" \o label, pos, state, action, ep)

\* createChild(...).reducer(path, label)(state, action); pos is the position
\* of the child.
ChildReducer(child, path, label, pos, state, action, ep) ==
    LET i == FirstMatch(child.reducers, path, action.type)
    IN  IF i = 0
        THEN StateReducer(child.childState, path \o "/" \o label, pos, state, action, ep)
        ELSE With(Produce(child.reducers[i].value, state, action, ep), LAMBDA p :
                Result(p.thrown, p.val, {OverrideHandler(pos, child.reducers[i].label)}, {}))

\* The children of a state are reduced in Object.entries order and the first
\* throw ends the run: what the callback leaves of the first n entries.
RECURSIVE MapChildren(_, _, _)
MapChildren(children, callback(_, _), n) ==
    IF n = 0 THEN Result(FALSE, <<>>, {}, {})
    ELSE With(MapChildren(children, callback, n - 1), LAMBDA before :
            IF before.thrown THEN before
            ELSE With(callback(children[n].value, children[n].label), LAMBDA r :
                    IF r.thrown
                    THEN Result(TRUE, r.val, before.applied \cup r.applied,
                                before.ran \cup r.ran)
                    ELSE Result(FALSE, (children[n].label :> r.val) @@ before.val,
                                before.applied \cup r.applied, before.ran \cup r.ran)))

\* ChildrenReducer that maps over the labels of the prior children object
\* where there is one, not over those of the definition.
ChildrenReducerOverPrior(children, path, pos, state, action, ep) ==
    LET s == IF state = Undefined THEN EmptyObject(ep) ELSE state
        kept == IF "map" \in DOMAIN s
                THEN SelectSeq(children, LAMBDA e : e.label \in DOMAIN s.map)
                ELSE children
    IN  IF IsNullish(s) /\ children # <<>>
        THEN Result(TRUE, Err("TypeError"), {}, {})
        ELSE With(MapChildren(kept,
                      LAMBDA child, label :
                          ChildReducer(child, path, label, Append(pos, label),
                                       GetChild(s, label), action, ep),
                      Len(kept)),
                  LAMBDA f :
                      IF f.thrown THEN f
                      ELSE Result(FALSE, ChildrenObject(ep, f.val), f.applied, f.ran))

\* childrenReducer = (state = {}, action) => mapObject(children, (child, label) =>
\*   child.reducer(path, label)(state[label], action))
ChildrenReducer(children, path, pos, state, action, ep) ==
    LET s == IF state = Undefined THEN EmptyObject(ep) ELSE state
    IN  IF IsNullish(s) /\ children # <<>>
        THEN Result(TRUE, Err("TypeError"), {}, {})
        ELSE With(MapChildren(children,
                      LAMBDA child, label :
                          ChildReducer(child, path, label, Append(pos, label),
                                       GetChild(s, label), action, ep),
                      Len(children)),
                  LAMBDA f :
                      IF f.thrown THEN f
                      ELSE Result(FALSE, ChildrenObject(ep, f.val), f.applied, f.ran))

\* createState(...).reducer(path)(state = {}, action)
StateReducer(d, path, pos, state, action, ep) ==
    LET s == IF state = Undefined THEN EmptyObject(ep) ELSE state
    IN  IF IsNullish(s) THEN Result(TRUE, Err("TypeError"), {}, {pos})
        ELSE With(NodeReducer(d.node, path, pos, Get(s, "node"), action, ep), LAMBDA n :
                IF n.thrown THEN Result(TRUE, n.val, n.applied, {pos})
                ELSE With(ChildrenReducer(d.children, path, pos, Get(s, "children"),
                                          action, ep),
                          LAMBDA c :
                              IF c.thrown
                              THEN Result(TRUE, c.val, n.applied \cup c.applied,
                                          {pos} \cup c.ran)
                              ELSE Result(FALSE, StateNode(ep, n.val, c.val),
                                          n.applied \cup c.applied, {pos} \cup c.ran)))

----------------------------------------------------------------------------
(* The registries of action creators.  A local creator is the user's       *)
(* function from the arguments to the payload: "arg" is (amount) => amount *)
(* and "null" is () => null, both from the README.                         *)

\* (...args) => ({ type: `${path}/${label}`, payload: action(...args) })
ActionCreator(path, label, action) == [type |-> path \o "/" \o label, fn |-> action]

\* What the composed creator returns for the argument amount.
Call(creator, amount) ==
    [type |-> creator.type,
     payload |-> IF creator.fn = "arg" THEN Num(amount) ELSE Null]

RECURSIVE Actions(_, _)

\* createChild(...).actions(path, label)
ChildActions(child, path, label) == Actions(child.childState, path \o "/" \o label)

\* createState(...).actions(path): { _: ..., ...children }, where a child
\* labelled "_" replaces the local creators.
Actions(d, path) ==
    MapObject(d.children, LAMBDA child, label : ChildActions(child, path, label))
    @@ ("_" :> MapObject(d.actions, LAMBDA action, label : ActionCreator(path, label, action)))

\* select = (tree) => tree.l1.l2...  for the labels of sel
RECURSIVE Select(_, _)
Select(registry, sel) ==
    IF sel = <<>> THEN registry ELSE Select(registry[Head(sel)], Tail(sel))

\* The positions of a definition tree: the sequences of child labels.
RECURSIVE Positions(_)
Positions(d) ==
    {<<>>} \cup UNION {{<<l>> \o p : p \in Positions(Lookup(d.children, l).childState)} :
                       l \in Labels(d.children)}

\* The state defined at a position.
RECURSIVE StateAt(_, _)
StateAt(d, pos) ==
    IF pos = <<>> THEN d
    ELSE StateAt(Lookup(d.children, Head(pos)).childState, Tail(pos))

\* The node value at a position of a state.
RECURSIVE NodeAt(_, _)
NodeAt(s, pos) ==
    IF pos = <<>> THEN Get(s, "node")
    ELSE NodeAt(GetChild(Get(s, "children"), Head(pos)), Tail(pos))

----------------------------------------------------------------------------
(* The trees of the model.                                                 *)

\* const initialState = { value: 0 }
initialState == Leaf(0, 0)

\* README, Create Thunks: the state a
aState ==
    createState(
        createNode(initialState,
            << Entry("increaseByAmount", "add"),
               Entry("increaseAsyncPending", "log"),
               Entry("increaseAsyncResolved", "add"),
               Entry("increaseAsyncRejected", "log") >>),
        <<>>,
        << Entry("increaseByAmount", "arg") >>,
        << Entry("increaseAsync", "amount") >>)

\* README, reducers inside createChild: increment changes the root and a.
\* The root also has a thunk, refresh, whose Resolved action both the root
\* and the child link a handle.
appState ==
    createState(
        createNode(initialState,
            << Entry("increment", "inc"), Entry("refreshResolved", "add") >>),
        << Entry("a", createChild(aState,
                 << Entry("increment", "incNode"), Entry("refreshResolved", "incNode") >>)) >>,
        << Entry("increment", "null") >>,
        << Entry("refresh", "amount") >>)

\* A state whose reducer of the thunk's Resolved action throws.
faultyState ==
    createState(
        createNode(initialState,
            << Entry("loadResolved", "throw"), Entry("loadRejected", "inc") >>),
        <<>>,
        <<>>,
        << Entry("load", "amount") >>)

\* Two levels: increment is a reducer of the root and of a, and an override
\* of the links a, b (under the root) and c (under a).
leafState ==
    createState(createNode(initialState, << Entry("set", "add") >>), <<>>,
                << Entry("set", "arg") >>, <<>>)

innerState ==
    createState(
        createNode(initialState, << Entry("increment", "inc") >>),
        << Entry("c", createChild(leafState, << Entry("increment", "incNode") >>)) >>,
        << Entry("increment", "null") >>,
        <<>>)

deepState ==
    createState(
        createNode(initialState, << Entry("increment", "inc") >>),
        << Entry("a", createChild(innerState, << Entry("increment", "incNode") >>)),
           Entry("b", createChild(leafState, << Entry("increment", "incNode") >>)) >>,
        << Entry("increment", "null") >>,
        <<>>)

\* An override whose name holds the separator: "a/increment" on the link a
\* is addressed by the type of a's own increment.
slashState ==
    createState(
        createNode(initialState, <<>>),
        << Entry("a", createChild(innerState, << Entry("a/increment", "incNode") >>)) >>,
        <<>>,
        <<>>)

\* A label that holds the separator: the child "a/b" and the child b of a.
\* The root has no node of its own (createState's default).
clashState ==
    createState(
        DefaultNode,
        << Entry("a/b", createChild(leafState, <<>>)),
           Entry("a", createChild(
               createState(DefaultNode, << Entry("b", createChild(leafState, <<>>)) >>,
                           <<>>, <<>>), <<>>)) >>,
        <<>>,
        <<>>)

\* An override that rewrites more than the node value: reset on the link a
\* empties the children of a.
pruneState ==
    createState(
        createNode(initialState, << Entry("increment", "inc") >>),
        << Entry("a", createChild(innerState, << Entry("reset", "prune") >>)) >>,
        << Entry("increment", "null") >>,
        <<>>)

\* A child labelled "_", the key under which a registry keeps the creators
\* of the position itself.
underscoreState ==
    createState(
        createNode(initialState, << Entry("increment", "inc") >>),
        << Entry("_", createChild(leafState, <<>>)) >>,
        << Entry("increment", "null") >>,
        <<>>)

Defs ==
    [app |-> appState, faulty |-> faultyState, deep |-> deepState,
     slash |-> slashState, clash |-> clashState, underscore |-> underscoreState,
     prune |-> pruneState]

\* The root state given to createStore.
Root == Defs[def]

----------------------------------------------------------------------------
(* The store.  configureStore({ reducer: state.reducer() }) runs the       *)
(* reducer once on undefined with redux's own INIT action; dispatch runs   *)
(* it on the current state, keeps the result unless the reducer threw, and *)
(* then calls the subscribers, which are the application's code and may    *)
(* throw too.  What dispatch throws reaches its caller.                    *)

InitAction == [type |-> "@@redux/INIT", payload |-> Undefined]

\* state.reducer(), with path = ""
RootReducer(s, action, ep) == StateReducer(Root, "", <<>>, s, action, ep)

\* createStore(state).store.getState() right after creation
createStore(d) == StateReducer(d, "", <<>>, Undefined, InitAction, 0).val

\* The number of the dispatch that comes next.
Epoch == Len(timeline) + 1

\* Dispatch that runs the reducer on the state before the last dispatch.
DispatchOnStale(action, by, listenerThrows) ==
    With(RootReducer(prev, action, Epoch), LAMBDA r :
        [state |-> IF r.thrown THEN currentState ELSE r.val,
         thrown |-> r.thrown \/ listenerThrows,
         error |-> IF r.thrown THEN r.val ELSE Err("listener"),
         entry |-> [type |-> action.type, payload |-> action.payload, by |-> by,
                    threw |-> r.thrown, applied |-> r.applied, ran |-> r.ran]])

\* store.dispatch(action) by the caller by (0: the application, i > 0: the
\* composed thunk of invocation i, -i: the operation of invocation i), with a
\* subscriber that throws or not:
\* the state it leaves, whether it throws and what, and its entry of the
\* timeline (threw: the reducer threw, so the state was not replaced).
Dispatch(action, by, listenerThrows) ==
    With(RootReducer(currentState, action, Epoch), LAMBDA r :
        [state |-> IF r.thrown THEN currentState ELSE r.val,
         thrown |-> r.thrown \/ listenerThrows,
         error |-> IF r.thrown THEN r.val ELSE Err("listener"),
         entry |-> [type |-> action.type, payload |-> action.payload, by |-> by,
                    threw |-> r.thrown, applied |-> r.applied, ran |-> r.ran]])

\* The variables of the store after the dispatch whose outcome is d.
Commit(d) ==
    /\ currentState' = d.state
    /\ prev' = currentState
    /\ timeline' = Append(timeline, d.entry)

Amounts == 1 .. MaxAmount

\* Dispatches by the application, beside those of the thunks.
PlainDispatches == Len(SelectSeq(timeline, LAMBDA e : e.by = 0))

\* dispatch(actions(select).name(amount)): the application dispatches what
\* an action creator of the registry returns.
DispatchAction(sel, name, amount, listenerThrows) ==
    /\ sel \in Positions(Root)
    /\ name \in DOMAIN Select(Actions(Root, ""), sel)["_"]
    /\ \E d \in {Dispatch(Call(Select(Actions(Root, ""), sel)["_"][name], amount),
                          0, listenerThrows)} : Commit(d)
    /\ UNCHANGED <<def, inv>>

\* The action types the application writes by hand: the qualified name of
\* every handler of the tree, and one that no handler has.
RECURSIVE PathOf(_)
PathOf(pos) ==
    IF pos = <<>> THEN ""
    ELSE PathOf(SubSeq(pos, 1, Len(pos) - 1)) \o "/" \o pos[Len(pos)]

Parent(pos) == SubSeq(pos, 1, Len(pos) - 1)

\* The child link at a position other than the root.
LinkAt(d, pos) == Lookup(StateAt(d, Parent(pos)).children, pos[Len(pos)])

\* Every update function of a tree: the reducers of its nodes and the
\* overrides of its child links.
Handlers(d) ==
    UNION {{LeafHandler(pos, l) : l \in Labels(StateAt(d, pos).node.reducers)} :
             pos \in Positions(d)}
    \cup UNION {{OverrideHandler(pos, l) : l \in Labels(LinkAt(d, pos).reducers)} :
             pos \in Positions(d) \ {<<>>}}

\* The action type a handler answers to.
QualifiedName(h) ==
    IF h.kind = "leaf" THEN PathOf(h.pos) \o "/" \o h.name
    ELSE PathOf(Parent(h.pos)) \o "/" \o h.name

UnknownType == "/unknown"

HandWritten(d) == {QualifiedName(h) : h \in Handlers(d)} \cup {UnknownType}

\* dispatch({ type, payload }) with an action object written by hand.
DispatchObject(type, payload, listenerThrows) ==
    /\ type \in HandWritten(Root)
    /\ \E d \in {Dispatch([type |-> type, payload |-> payload], 0, listenerThrows)} :
          Commit(d)
    /\ UNCHANGED <<def, inv>>

----------------------------------------------------------------------------
(* The reducer tree alone: any tree of Defs, dispatches by the application.*)

TreeInit ==
    /\ def \in DOMAIN Defs
    /\ currentState = createStore(Defs[def])
    /\ prev = currentState
    /\ timeline = <<>>
    /\ inv = <<>>

TreeNext ==
    \/ \E sel \in Positions(Root) :
          \E name \in Labels(StateAt(Root, sel).actions), amount \in Amounts, l \in BOOLEAN :
            PlainDispatches < MaxDispatches /\ DispatchAction(sel, name, amount, l)
    \/ \E type \in HandWritten(Root), payload \in {Null, Num(1)}, l \in BOOLEAN :
            PlainDispatches < MaxDispatches /\ DispatchObject(type, payload, l)

TreeSpec == TreeInit /\ [][TreeNext]_vars

----------------------------------------------------------------------------
(* The registries of thunk creators and the composed thunk.  A local thunk *)
(* creator is (amount) => operation; what the operation does with          *)
(* (dispatch, getState) is the user's code, and the model lets it end in   *)
(* each of the four ways a JavaScript function can:                        *)
(*   returns   it is not async and returns amount                          *)
(*   throws    it is not async and throws                                  *)
(*   resolves  it returns a promise that is fulfilled with amount later    *)
(*   rejects   it returns a promise that is rejected later                 *)

OpKinds == {"returns", "throws", "resolves", "rejects"}

\* The error of the operation called with amount.
OpError(amount) == Err("failed " \o ToString(amount))

\* The types of the three actions the composed thunk dispatches.
ThunkCreator(path, label, thunk) ==
    [pending |-> path \o "/" \o label \o "Pending",
     resolved |-> path \o "/" \o label \o "Resolved",
     rejected |-> path \o "/" \o label \o "Rejected",
     thunk |-> thunk]

RECURSIVE Thunks(_, _)

\* createChild(...).thunks(path, label)
ChildThunks(child, path, label) == Thunks(child.childState, path \o "/" \o label)

\* createState(...).thunks(path)
Thunks(d, path) ==
    MapObject(d.children, LAMBDA child, label : ChildThunks(child, path, label))
    @@ ("_" :> MapObject(d.thunks, LAMBDA thunk, label : ThunkCreator(path, label, thunk)))

\* ResolvedAction that drops the payload.
ResolvedActionNoPayload(creator, payload) == [type |-> creator.resolved, payload |-> Null]

\* The three actions of the composed thunk.
PendingAction(creator) == [type |-> creator.pending, payload |-> Null]
ResolvedAction(creator, payload) == [type |-> creator.resolved, payload |-> payload]
RejectedAction(creator, payload) == [type |-> creator.rejected, payload |-> payload]

\* An invocation: the composed thunk's closure (where it was selected, its
\* name, creator and argument), the way its operation ends (kind, "none"
\* while the operation has not been called), where the promise chain stands
\* (pc), the value or error the chain carries (val), the promise returned to
\* the caller (promise, with reason when rejected), and the length of the
\* timeline when the operation was called (invokedAt, -1: not called).
Invocation(closure, kind, pc, val, promise, reason, invokedAt) ==
    [sel |-> closure.sel, name |-> closure.name, creator |-> closure.creator,
     amount |-> closure.amount, kind |-> kind, pc |-> pc,
     val |-> val, promise |-> promise, reason |-> reason, invokedAt |-> invokedAt]

\* Started with the operation called before Pending is dispatched.
StartedBeforePending(closure, kind, d, len) ==
    CASE kind = "throws" ->
            Invocation(closure, kind, "done", Undefined,
                       "rejected", OpError(closure.amount), len - 1)
      [] kind = "returns" ->
            Invocation(closure, kind, "then", Num(closure.amount),
                       "pending", Undefined, len - 1)
      [] OTHER ->
            Invocation(closure, kind, "running", Undefined,
                       "pending", Undefined, len - 1)

\* async (dispatch, getState) => {
\*   dispatch({ type: `${path}/${label}Pending`, payload: null });
\*   return Promise.resolve(thunk(...args)(dispatch, getState)).then(...).catch(...);
\* }
\* up to the point where it returns its promise: the invocation it leaves,
\* given the dispatch of Pending (d) and the length of the timeline after it.
Started(closure, kind, d, len) ==
    IF d.thrown
    THEN Invocation(closure, "none", "done", Undefined, "rejected", d.error, -1)
    ELSE CASE kind = "throws" ->
                Invocation(closure, kind, "done", Undefined,
                           "rejected", OpError(closure.amount), len)
           [] kind = "returns" ->
                Invocation(closure, kind, "then", Num(closure.amount),
                           "pending", Undefined, len)
           [] OTHER ->
                Invocation(closure, kind, "running", Undefined,
                           "pending", Undefined, len)

\* dispatch(thunks(select).name(amount)): the thunk middleware calls the
\* composed thunk with the store's dispatch and getState.
Invoke(sel, name, amount, kind, listenerThrows) ==
    /\ Len(inv) < MaxInvocations
    /\ sel \in Positions(Root)
    /\ name \in DOMAIN Select(Thunks(Root, ""), sel)["_"]
    /\ \E creator \in {Select(Thunks(Root, ""), sel)["_"][name]} :
         \E d \in {Dispatch(PendingAction(creator), Len(inv) + 1, listenerThrows)} :
            /\ Commit(d)
            /\ inv' = Append(inv, Started([sel |-> sel, name |-> name, creator |-> creator,
                                           amount |-> amount],
                                          kind, d, Len(timeline) + 1))
    /\ UNCHANGED def

\* The promise of the operation settles.
Settle(i) ==
    /\ i \in DOMAIN inv
    /\ inv[i].pc = "running"
    /\ inv' = [inv EXCEPT ![i] =
                 IF inv[i].kind = "resolves"
                 THEN [@ EXCEPT !.pc = "then", !.val = Num(inv[i].amount)]
                 ELSE [@ EXCEPT !.pc = "catch", !.val = OpError(inv[i].amount)]]
    /\ UNCHANGED <<def, currentState, prev, timeline>>

\* .then((payload) => { dispatch({ type: `${path}/${label}Resolved`, payload }); })
\* What the callback leaves of the invocation, given its dispatch.
Then(invocation, d) ==
    IF d.thrown THEN [invocation EXCEPT !.pc = "catch", !.val = d.error]
    ELSE [invocation EXCEPT !.pc = "done", !.val = Undefined, !.promise = "fulfilled"]

ThenCallback(i, listenerThrows) ==
    /\ i \in DOMAIN inv
    /\ inv[i].pc = "then"
    /\ \E d \in {Dispatch(ResolvedAction(inv[i].creator, inv[i].val), i, listenerThrows)} :
          /\ Commit(d)
          /\ inv' = [inv EXCEPT ![i] = Then(inv[i], d)]
    /\ UNCHANGED def

\* .catch((payload) => { dispatch({ type: `${path}/${label}Rejected`, payload }); })
Catch(invocation, d) ==
    IF d.thrown
    THEN [invocation EXCEPT !.pc = "done", !.val = Undefined,
                            !.promise = "rejected", !.reason = d.error]
    ELSE [invocation EXCEPT !.pc = "done", !.val = Undefined, !.promise = "fulfilled"]

CatchCallback(i, listenerThrows) ==
    /\ i \in DOMAIN inv
    /\ inv[i].pc = "catch"
    /\ \E d \in {Dispatch(RejectedAction(inv[i].creator, inv[i].val), i, listenerThrows)} :
          /\ Commit(d)
          /\ inv' = [inv EXCEPT ![i] = Catch(inv[i], d)]
    /\ UNCHANGED def

\* OpCanDispatch that holds on after the chain has finished.
OpCanDispatchLate(invocation, dispatched) ==
    invocation.pc \in {"running", "done"} /\ dispatched < MaxOpDispatches

\* thunk(...args)(dispatch, getState): the operation holds the dispatch and
\* getState it was called with, and uses them while it runs, that is until
\* its promise settles; dispatched is the number of its dispatches so far.
OpCanDispatch(invocation, dispatched) ==
    invocation.pc = "running" /\ dispatched < MaxOpDispatches

\* The operation of invocation i, between two awaits, dispatches the action
\* of a creator of its own position, called with the value getState() shows
\* there; it catches what the dispatch throws.
OpDispatch(i, name, listenerThrows) ==
    /\ i \in DOMAIN inv
    /\ OpCanDispatch(inv[i], Cardinality({k \in DOMAIN timeline : timeline[k].by = -i}))
    /\ name \in DOMAIN Select(Actions(Root, ""), inv[i].sel)["_"]
    /\ \E d \in {Dispatch(Call(Select(Actions(Root, ""), inv[i].sel)["_"][name],
                                Get(NodeAt(currentState, inv[i].sel), "value")),
                           -i, listenerThrows)} : Commit(d)
    /\ UNCHANGED <<def, inv>>

----------------------------------------------------------------------------
(* The store with its thunks: a tree that defines thunks, dispatches by    *)
(* the application and invocations of composed thunks, interleaved as the  *)
(* event loop allows.                                                      *)

ThunkDefs == {"app", "faulty"}

Init ==
    /\ def \in ThunkDefs
    /\ currentState = createStore(Defs[def])
    /\ prev = currentState
    /\ timeline = <<>>
    /\ inv = <<>>

\* The steps of the composed thunks.
ThunkNext ==
    \/ \E sel \in Positions(Root) :
          \E name \in Labels(StateAt(Root, sel).thunks), amount \in Amounts,
             kind \in OpKinds, l \in BOOLEAN :
            Invoke(sel, name, amount, kind, l)
    \/ \E i \in DOMAIN inv : Settle(i)
    \/ \E i \in DOMAIN inv, l \in BOOLEAN : ThenCallback(i, l)
    \/ \E i \in DOMAIN inv, l \in BOOLEAN : CatchCallback(i, l)

Next ==
    \/ \E sel \in Positions(Root) :
          \E name \in Labels(StateAt(Root, sel).actions), amount \in Amounts, l \in BOOLEAN :
            PlainDispatches < MaxInterleaved /\ DispatchAction(sel, name, amount, l)
    \/ ThunkNext

Spec == Init /\ [][Next]_vars

\* The thunks and the dispatches of their operations.
OpNext ==
    \/ ThunkNext
    \/ \E i \in DOMAIN inv :
          \E name \in Labels(StateAt(Root, inv[i].sel).actions), l \in BOOLEAN :
            OpDispatch(i, name, l)

OpSpec == Init /\ [][OpNext]_vars

\* The thunks alone, under the event loop: a callback that is queued runs.
FairSpec ==
    /\ Init
    /\ [][ThunkNext]_vars
    /\ \A i \in 1 .. MaxInvocations :
          /\ WF_vars(\E l \in BOOLEAN : ThenCallback(i, l))
          /\ WF_vars(\E l \in BOOLEAN : CatchCallback(i, l))

----------------------------------------------------------------------------
(* What the claims speak of.                                               *)

\* The places of the timeline where invocation i dispatched.
DispatchedBy(i) == {k \in DOMAIN timeline : timeline[k].by = i}

\* The lifecycle types of invocation i, from its path and local name.
PendingType(i) == PathOf(inv[i].sel) \o "/" \o inv[i].name \o "Pending"
ResolvedType(i) == PathOf(inv[i].sel) \o "/" \o inv[i].name \o "Resolved"
RejectedType(i) == PathOf(inv[i].sel) \o "/" \o inv[i].name \o "Rejected"

Pendings(i) == {k \in DispatchedBy(i) : timeline[k].type = PendingType(i)}
Resolveds(i) == {k \in DispatchedBy(i) : timeline[k].type = ResolvedType(i)}
Rejecteds(i) == {k \in DispatchedBy(i) : timeline[k].type = RejectedType(i)}
Terminals(i) == Resolveds(i) \cup Rejecteds(i)

Done(i) == inv[i].pc = "done"
InFlight(i) == inv[i].pc \in {"running", "then", "catch"}
Invoked(i) == inv[i].invokedAt >= 0

\* The operation of invocation i has ended, with a result or with an error.
OpSucceeded(i) ==
    \/ inv[i].kind = "returns"
    \/ inv[i].kind = "resolves" /\ inv[i].pc # "running"
OpFailed(i) ==
    \/ inv[i].kind = "throws"
    \/ inv[i].kind = "rejects" /\ inv[i].pc # "running"

\* C1: every invocation of a composed thunk dispatches exactly one terminal
\* action once it has finished, Resolved or Rejected, never both and never
\* one of them twice, and beside its Pending nothing else; also when a
\* dispatch raises.
C1_ExactlyOneTerminal ==
    \A i \in DOMAIN inv :
        /\ Cardinality(Terminals(i)) <= 1
        /\ Done(i) => Cardinality(Terminals(i)) = 1
        /\ Cardinality(Pendings(i)) <= 1
        /\ DispatchedBy(i) = Pendings(i) \cup Terminals(i)

\* C2: when the operation fails with error e, by throwing when it is called
\* or by a promise that rejects, the composed thunk dispatches Rejected with
\* payload e and does not dispatch Resolved.
C2_FailureDispatchesRejected ==
    \A i \in DOMAIN inv :
        Done(i) /\ OpFailed(i) =>
            /\ \E k \in Rejecteds(i) : timeline[k].payload = OpError(inv[i].amount)
            /\ Resolveds(i) = {}

\* C3: the promise returned to the code that dispatched the thunk is never
\* rejected, whether the operation succeeds, throws or rejects.
C3_NeverReRaised ==
    \A i \in DOMAIN inv : inv[i].promise # "rejected"

\* C4: the first action of an invocation at path P with name n is
\* { type: P/nPending, payload: null }; it is dispatched before the operation
\* is called and before the invocation's Resolved or Rejected.
C4_PendingFirst ==
    \A i \in DOMAIN inv :
        /\ DispatchedBy(i) # {}
        /\ \E p \in DispatchedBy(i) :
              /\ \A k \in DispatchedBy(i) : p <= k
              /\ timeline[p].type = PendingType(i)
              /\ timeline[p].payload = Null
              /\ Invoked(i) => p <= inv[i].invokedAt
              /\ \A k \in Terminals(i) : p < k

\* A finished invocation that called a promise-returning operation at the
\* child a, and whose Resolved or Rejected is on the timeline.
C4_Witness ==
    \E i \in DOMAIN inv :
        /\ Done(i) /\ inv[i].sel = <<"a">> /\ inv[i].kind \in {"resolves", "rejects"}
        /\ Terminals(i) # {}

\* The lifecycle of a finished invocation: its Pending, then one Resolved
\* with its result or one Rejected with its error, and nothing else.
OwnTriplet(i) ==
    /\ Cardinality(DispatchedBy(i)) = 2
    /\ \E p \in Pendings(i), t \in Terminals(i) :
          /\ p < t
          /\ timeline[p].payload = Null
          /\ \/ /\ OpSucceeded(i) /\ t \in Resolveds(i)
                /\ timeline[t].payload = Num(inv[i].amount)
             \/ /\ OpFailed(i) /\ t \in Rejecteds(i)
                /\ timeline[t].payload = OpError(inv[i].amount)

\* C5: with several invocations in flight at once, each one still produces
\* its own triplet, with its own result or error, under every interleaving.
C5_IndependentTriplets ==
    \A i \in DOMAIN inv :
        Done(i) /\ (\E j \in DOMAIN inv : j # i /\ InFlight(j)) => OwnTriplet(i)

\* The Resolved action of invocation i is on the timeline after its Pending:
\* type path/nameResolved, payload the operation's result, and the reducer
\* nameResolved of the leaf at that path was applied to it.
ResolvedApplied(i) ==
    \E k \in DispatchedBy(i) :
        /\ timeline[k].type = ResolvedType(i)
        /\ timeline[k].payload = Num(inv[i].amount)
        /\ \E p \in Pendings(i) : p < k /\ \A j \in DispatchedBy(i) : p <= j
        /\ inv[i].name \o "Resolved" \in Labels(StateAt(Root, inv[i].sel).node.reducers)
              => LeafHandler(inv[i].sel, inv[i].name \o "Resolved") \in timeline[k].applied

\* The last dispatch was the Resolved action of invocation i.
LastIsResolvedOf(i) ==
    /\ timeline # <<>>
    /\ timeline[Len(timeline)].by = i
    /\ timeline[Len(timeline)].type = ResolvedType(i)

\* README: increaseAsyncResolved(state, action) { state.value += action.payload }
\* after the Resolved action of i the leaf value is the one before plus the
\* resolved amount.
GrewByAmount(i) ==
    NodeAt(currentState, inv[i].sel).value = NodeAt(prev, inv[i].sel).value + inv[i].amount

\* The reducer nameResolved of the leaf of invocation i is the README's.
AddsPayload(i) ==
    \E k \in DOMAIN StateAt(Root, inv[i].sel).node.reducers :
        StateAt(Root, inv[i].sel).node.reducers[k] = Entry(inv[i].name \o "Resolved", "add")

\* C6: once the operation of an invocation has completed with result r, the
\* action { type: path/nameResolved, payload: r } is eventually dispatched,
\* after the invocation's Pending, and the leaf reducer nameResolved at that
\* path is applied with payload r; with the README's reducer the leaf value
\* grows by exactly r.
C6_ResolvedEventually ==
    /\ \A i \in 1 .. MaxInvocations :
          (i \in DOMAIN inv /\ OpSucceeded(i)) ~> (i \in DOMAIN inv /\ ResolvedApplied(i))
    /\ [](\A i \in DOMAIN inv :
             LastIsResolvedOf(i) /\ AddsPayload(i) => GrewByAmount(i))

\* The README's scenario: increaseAsync(2) at the child a has resolved and
\* the value of a has grown from 0 to 2.
C6_Witness ==
    \E i \in DOMAIN inv :
        /\ def = "app" /\ inv[i].sel = <<"a">> /\ inv[i].amount = 2
        /\ inv[i].kind = "resolves" /\ Done(i)
        /\ LastIsResolvedOf(i)
        /\ NodeAt(prev, <<"a">>).value = 0
        /\ NodeAt(currentState, <<"a">>).value = 2

----------------------------------------------------------------------------
(* The reducer tree.                                                       *)

\* The state node at a position of a state.
RECURSIVE SubState(_, _)
SubState(s, pos) ==
    IF pos = <<>> THEN s
    ELSE SubState(GetChild(Get(s, "children"), Head(pos)), Tail(pos))

IsPrefix(q, pos) == Len(q) <= Len(pos) /\ SubSeq(pos, 1, Len(q)) = q

\* The last dispatch: its entry, its action and the stamp of its objects.
Dispatched == timeline # <<>>
Last == timeline[Len(timeline)]
LastAction == [type |-> Last.type, payload |-> Last.payload]
LastEpoch == Len(timeline)

\* The handlers of the tree whose qualified name is the type.
Matching(type) == {h \in Handlers(Root) : QualifiedName(h) = type}

\* The override of the link q that the type addresses, as a set.
OverridesFor(q, type) ==
    {n \in Labels(LinkAt(Root, q).reducers) : type = PathOf(Parent(q)) \o "/" \o n}

\* The child links on the way from the root to a handler: those of its
\* position, without the handler's own link when it is an override.
LinksAbove(h) ==
    {q \in Positions(Root) \ {<<>>} :
        IsPrefix(q, h.pos) /\ (h.kind = "override" => q # h.pos)}

\* A link above the handler has an override that the type addresses, so the
\* subtree of that link is not reduced.
Shadowed(h, type) == \E q \in LinksAbove(h) : OverridesFor(q, type) # {}

LinksCalled == {q \in Positions(Root) \ {<<>>} : Parent(q) \in Last.ran}

\* The handlers at or below a position.
HandlersBelow(q) == {h \in Handlers(Root) : IsPrefix(q, h.pos)}

\* C8: a child link L under a parent at P whose override e is addressed
\* (type = P/e) applies e to the whole prior child state node and does not
\* run the nested state's transition; otherwise the child's new state is the
\* nested state's transition at path P/L on the same prior node and action.
\* Exactly one of the two happens.
C8_OverrideOrDelegate ==
    Dispatched /\ ~Last.threw =>
        \A q \in LinksCalled :
            LET link == LinkAt(Root, q)
                P == PathOf(Parent(q))
                L == q[Len(q)]
                prior == SubState(prev, q)
                now == SubState(currentState, q)
                over == OverridesFor(q, Last.type)
            IN  IF over # {}
                THEN /\ \E n \in over :
                          /\ Last.applied \cap HandlersBelow(q) = {OverrideHandler(q, n)}
                          /\ now = Produce(Lookup(link.reducers, n), prior, LastAction,
                                           LastEpoch).val
                     /\ q \notin Last.ran
                ELSE /\ q \in Last.ran
                     /\ \A h \in Last.applied : ~(h.kind = "override" /\ h.pos = q)
                     /\ now = StateReducer(link.childState, P \o "/" \o L, q, prior,
                                           LastAction, LastEpoch).val

\* README: "/increment" went to the override of a (the value of a grew by
\* one, a's own transition did not run), and "/a/increaseByAmount" was left
\* to a's own transition (the value of a grew by the payload).
C8_Witness ==
    /\ def = "app" /\ Len(timeline) = 2
    /\ timeline[1].type = "/a/increaseByAmount" /\ timeline[1].payload = Num(2)
    /\ timeline[2].type = "/increment"
    /\ <<"a">> \in timeline[1].ran /\ <<"a">> \notin timeline[2].ran
    /\ NodeAt(prev, <<"a">>).value = 2
    /\ NodeAt(currentState, <<"a">>).value = 3

\* The content of a value without the identities of its objects.
RECURSIVE Strip(_)
Strip(v) ==
    IF IsStateNode(v)
    THEN [node |-> Strip(v.node),
          children |-> [l \in DOMAIN v.children.map |-> Strip(v.children.map[l])]]
    ELSE IF IsLeaf(v) THEN [value |-> v.value]
    ELSE v

\* The parents the last action addresses at several levels: the leaf at p
\* has a reducer of the name, and so do child links of p as an override.
Coordinated ==
    {pn \in Positions(Root) \X {h.name : h \in Handlers(Root)} :
        /\ Last.type = PathOf(pn[1]) \o "/" \o pn[2]
        /\ pn[2] \in Labels(StateAt(Root, pn[1]).node.reducers)
        /\ \E q \in Positions(Root) \ {<<>>} :
              Parent(q) = pn[1] /\ pn[2] \in Labels(LinkAt(Root, q).reducers)}

\* The node at p and every child of p with an override of the name hold what
\* their update functions leave of the prior values.
AllUpdated(p, n) ==
    /\ Strip(NodeAt(currentState, p)) =
          Strip(Recipe(Lookup(StateAt(Root, p).node.reducers, n),
                       NodeAt(prev, p), LastAction).val)
    /\ \A q \in Positions(Root) \ {<<>>} :
          Parent(q) = p /\ n \in Labels(LinkAt(Root, q).reducers) =>
              Strip(SubState(currentState, q)) =
                  Strip(Recipe(Lookup(LinkAt(Root, q).reducers, n),
                               SubState(prev, q), LastAction).val)

RECURSIVE Shape(_, _)
Shape(s, d) ==
    /\ IsStateNode(s)
    /\ DOMAIN s.children = {"ref", "map"}
    /\ DOMAIN s.children.map = Labels(d.children)
    /\ \A l \in Labels(d.children) :
          Shape(s.children.map[l], Lookup(d.children, l).childState)

\* C10: an action whose type no reducer and no override of the tree has,
\* dispatched on a fully seeded state, leaves a state deep-equal to the one
\* before, in which every subtree (every state node, every children object
\* and every node value) is the very object of the state before.
C10_NoOpKeepsIdentity ==
    Dispatched /\ Shape(prev, Root) /\ Matching(Last.type) = {} =>
        /\ Strip(currentState) = Strip(prev)
        /\ \A pos \in Positions(Root) :
              /\ SubState(currentState, pos) = SubState(prev, pos)
              /\ SubState(currentState, pos).ref = SubState(prev, pos).ref
              /\ SubState(currentState, pos).children.ref = SubState(prev, pos).children.ref

----------------------------------------------------------------------------
(* Frames, paths and shapes.                                               *)

\* The leaf at a position has no reducer that the type addresses.
LeafIgnores(pos, type) ==
    \A e \in Labels(StateAt(Root, pos).node.reducers) : type # PathOf(pos) \o "/" \o e

\* The prior value of the leaf at a position: state = initialState when the
\* prior state has none.
PriorValue(pos) ==
    IF NodeAt(prev, pos) = Undefined THEN StateAt(Root, pos).node.initialState
    ELSE NodeAt(prev, pos)

\* C11: a leaf built at path P with reducers for the names E returns, for an
\* action whose type is not P/e for any e in E, the prior value itself, and
\* calls no update function; so a state whose leaf does not respond to the
\* dispatched type keeps its node value, the very object, in its transition.
C11_LeafReturnsPriorValue ==
    Dispatched =>
        \A pos \in Last.ran :
            LeafIgnores(pos, Last.type) =>
                /\ NodeReducer(StateAt(Root, pos).node, PathOf(pos), pos,
                               NodeAt(prev, pos), LastAction, LastEpoch)
                      = Result(FALSE, PriorValue(pos), {}, {})
                /\ ~Last.threw => NodeAt(currentState, pos) = PriorValue(pos)
                /\ \A h \in Last.applied : ~(h.kind = "leaf" /\ h.pos = pos)

\* README: increaseByAmount(2) of the child a was dispatched after an
\* increment; a's value changed, and the root's node, whose leaf has no
\* reducer of that type, is the object the increment left.
C11_Witness ==
    /\ def = "app" /\ Len(timeline) = 2
    /\ timeline[1].type = "/increment"
    /\ Last.type = "/a/increaseByAmount" /\ Last.payload = Num(2) /\ ~Last.threw
    /\ <<>> \in Last.ran /\ LeafIgnores(<<>>, Last.type)
    /\ NodeAt(currentState, <<>>) = Leaf(1, 1)
    /\ NodeAt(currentState, <<"a">>).value = NodeAt(prev, <<"a">>).value + 2

\* What the local creator of a name returns for the argument amount.
LocalPayload(pos, n, amount) ==
    IF Lookup(StateAt(Root, pos).actions, n) = "arg" THEN Num(amount) ELSE Null

\* actions(select) and thunks(select) for the select that walks to pos.
ActionsAt(pos) == Select(Actions(Root, ""), pos)["_"]
ThunksAt(pos) == Select(Thunks(Root, ""), pos)["_"]

\* C12: at every position reached through the labels L1..Lk, the creator the
\* action registry holds for a local action creator n returns
\* { type: "/L1/.../Lk/n", payload: what the local creator returns }, and the
\* thunk registry builds the lifecycle types of a local thunk from the same
\* path.
C12_PathComposition ==
    \A pos \in Positions(Root) :
        /\ \A n \in Labels(StateAt(Root, pos).actions), amount \in Amounts :
              /\ n \in DOMAIN ActionsAt(pos)
              /\ DOMAIN ActionsAt(pos)[n] = {"type", "fn"}
              /\ Call(ActionsAt(pos)[n], amount) =
                    [type |-> PathOf(pos) \o "/" \o n,
                     payload |-> LocalPayload(pos, n, amount)]
        /\ \A n \in Labels(StateAt(Root, pos).thunks) :
              /\ n \in DOMAIN ThunksAt(pos)
              /\ DOMAIN ThunksAt(pos)[n] = {"pending", "resolved", "rejected", "thunk"}
              /\ ThunksAt(pos)[n].pending = PathOf(pos) \o "/" \o n \o "Pending"
              /\ ThunksAt(pos)[n].resolved = PathOf(pos) \o "/" \o n \o "Resolved"
              /\ ThunksAt(pos)[n].rejected = PathOf(pos) \o "/" \o n \o "Rejected"

\* The last action is what the creator n selected at the position X returns.
ProducedAt(X, n) ==
    /\ n \in DOMAIN ActionsAt(X)
    /\ DOMAIN ActionsAt(X)[n] = {"type", "fn"}
    /\ \E amount \in Amounts : LastAction = Call(ActionsAt(X)[n], amount)

\* No override of the tree is addressed by the type.
NoOverrideFor(type) ==
    \A h \in Handlers(Root) : h.kind = "override" => QualifiedName(h) # type

\* C13: dispatching the action of the creator n selected at the position X
\* applies the leaf reducer n of X and, when no override answers to it,
\* nothing else: the node value at every other position, ancestor, sibling
\* or descendant of X, is unchanged.
C13_OnlyTheSelectedNode ==
    Dispatched /\ ~Last.threw =>
        \A X \in Positions(Root) :
            \A n \in Labels(StateAt(Root, X).actions)
                     \cap Labels(StateAt(Root, X).node.reducers) :
                ProducedAt(X, n) /\ NoOverrideFor(Last.type) =>
                    /\ Last.applied = {LeafHandler(X, n)}
                    /\ \A Y \in Positions(Root) \ {X} :
                          NodeAt(currentState, Y) = NodeAt(prev, Y)

\* The shape at one position: a state node whose children have exactly the
\* labels of the definition.
ShapeAt(pos) ==
    /\ IsStateNode(SubState(currentState, pos))
    /\ DOMAIN SubState(currentState, pos).children = {"ref", "map"}
    /\ DOMAIN SubState(currentState, pos).children.map = Labels(StateAt(Root, pos).children)

\* The trees whose overrides write node values only (the README's kind).
ValueOnlyOverrides ==
    \A h \in Handlers(Root) :
        h.kind = "override" =>
            Lookup(LinkAt(Root, h.pos).reducers, h.name) \in {"incNode", "log", "throw"}

\* C14: in every state reachable from store creation by dispatched actions,
\* those that trigger child-link overrides included, the state is a tree
\* { node, children } whose children labels at every position are exactly
\* those of the definition tree.
C14_ShapeFixed == Shape(currentState, Root)

\* C14, amended: the state has the definition's shape at store creation, at
\* every position whose state transition ran in the last dispatch, and
\* everywhere when the overrides of the tree write node values only; a
\* dispatch that throws leaves the state as it was.
C14_ShapeWhereTransitionRan ==
    /\ ~Dispatched => Shape(currentState, Root)
    /\ Dispatched /\ Last.threw => currentState = prev
    /\ Dispatched /\ ~Last.threw => \A pos \in Last.ran : ShapeAt(pos)
    /\ ValueOnlyOverrides => Shape(currentState, Root)

\* reset emptied the children of a; the next dispatch, increment, ran the
\* transition of a and of c, and the state has the definition's shape again,
\* with c seeded anew.
C14_Witness ==
    /\ def = "prune" /\ Len(timeline) = 2
    /\ timeline[1].type = "/reset" /\ Last.type = "/increment" /\ ~Last.threw
    /\ ~Shape(prev, Root)
    /\ <<"a", "c">> \in Last.ran
    /\ Shape(currentState, Root)
    /\ NodeAt(currentState, <<"a", "c">>) = initialState

\* The handler is one of the position X: a reducer of its leaf, or an
\* override of one of its child links.
BelongsTo(h, X) ==
    \/ h.kind = "leaf" /\ h.pos = X
    \/ h.kind = "override" /\ Parent(h.pos) = X

\* The names an action type is built from at a position: those of its
\* action creators, its leaf reducers and the overrides of its child links.
EventNames(X) ==
    Labels(StateAt(Root, X).actions) \cup Labels(StateAt(Root, X).node.reducers)
    \cup {h.name : h \in {g \in Handlers(Root) : BelongsTo(g, X)}}

\* C15: two different positions of a definition tree never have the same
\* path, and an action type P/e built for one position is never the
\* qualified name of a handler of another position.
C15_PathsIdentifyPositions ==
    /\ \A p, q \in Positions(Root) : p # q => PathOf(p) # PathOf(q)
    /\ \A X \in Positions(Root) :
          \A e \in EventNames(X) :
              \A h \in Matching(PathOf(X) \o "/" \o e) : BelongsTo(h, X)

----------------------------------------------------------------------------
(* The first run of the composed transition, and its totality.             *)

\* The actions a first run may meet: redux's own, and one of every type the
\* tree answers to or not.
FirstActions ==
    {InitAction} \cup {[type |-> t, payload |-> Num(1)] : t \in HandWritten(Root)}

\* The composed transition run on an undefined prior state.
FirstRun(action) == StateReducer(Root, "", <<>>, Undefined, action, 0)

\* What the leaf at a position holds after a first run: its initial value,
\* or what its update function makes of the initial value.
Seeded(pos, action) ==
    LET node == StateAt(Root, pos).node
        M == {e \in Labels(node.reducers) : action.type = PathOf(pos) \o "/" \o e}
    IN  IF M = {} THEN node.initialState
        ELSE Strip(Recipe(Lookup(node.reducers, CHOOSE e \in M : TRUE),
                          node.initialState, action).val)

\* No update function the action addresses is one that throws by itself.
NoneThrows(action) ==
    \A h \in Matching(action.type) :
        IF h.kind = "leaf"
        THEN Lookup(StateAt(Root, h.pos).node.reducers, h.name) # "throw"
        ELSE Lookup(LinkAt(Root, h.pos).reducers, h.name) # "throw"

\* C16: when the composed transition is first run, with an undefined prior
\* state, every leaf at every depth takes its own initial value (null for a
\* state defined without a node) when the action does not match it and the
\* result of its update function on the initial value when it does; after
\* store creation no leaf value is undefined.
C16_EveryLeafSeeded ==
    /\ \A action \in FirstActions :
          NoneThrows(action) =>
              /\ ~FirstRun(action).thrown
              /\ \A pos \in Positions(Root) :
                    Strip(NodeAt(FirstRun(action).val, pos)) = Strip(Seeded(pos, action))
    /\ ~Dispatched =>
          \A pos \in Positions(Root) :
              /\ NodeAt(currentState, pos) = StateAt(Root, pos).node.initialState
              /\ NodeAt(currentState, pos) # Undefined

\* The composed transition run on the current state, which an earlier run
\* returned.
NextRun(action) == RootReducer(currentState, action, Epoch)

\* C17: the composed transition never raises: for every action with a string
\* type and every prior state that is undefined or was returned by an earlier
\* run it returns a state node, also when a child link with overrides gets an
\* undefined prior child state; an action that matches nothing leaves the
\* state as it is.
C17_TransitionTotal ==
    \A action \in FirstActions :
        NoneThrows(action) =>
            /\ ~FirstRun(action).thrown
            /\ IsStateNode(FirstRun(action).val)
            /\ ~NextRun(action).thrown
            /\ IsStateNode(NextRun(action).val)
            /\ Matching(action.type) = {} /\ Shape(currentState, Root) =>
                  Strip(NextRun(action).val) = Strip(currentState)

----------------------------------------------------------------------------
(* The store under concurrent thunks.                                      *)

\* The left fold of the composed transition over the first k dispatches of
\* the timeline, from the state of store creation; a dispatch whose reducer
\* throws leaves the state as it is.
RECURSIVE Fold(_)
Fold(k) ==
    IF k = 0 THEN createStore(Root)
    ELSE With(Fold(k - 1), LAMBDA before :
            With(RootReducer(before,
                             [type |-> timeline[k].type, payload |-> timeline[k].payload], k),
                 LAMBDA r : IF r.thrown THEN before ELSE r.val))

\* The sum of the results of the first n invocations whose operation
\* succeeded.
RECURSIVE SumResolved(_)
SumResolved(n) ==
    IF n = 0 THEN 0
    ELSE SumResolved(n - 1) + (IF OpSucceeded(n) THEN inv[n].amount ELSE 0)

\* README: every dispatch of the run belongs to an invocation of
\* increaseAsync at the child a, whose Resolved reducer adds the payload, and
\* every invocation has completed.
OnlyIncreaseAsync ==
    /\ def = "app" /\ PlainDispatches = 0
    /\ \A i \in DOMAIN inv :
          inv[i].sel = <<"a">> /\ inv[i].name = "increaseAsync" /\ Done(i) /\ Invoked(i)

\* C18: the state after any run is the left fold of the composed transition
\* over the dispatch timeline, and once N concurrent invocations whose
\* Resolved reducer adds the payload have all completed, the leaf value is
\* the initial value plus the sum of the resolved payloads, under every
\* interleaving.
C18_NoLostUpdates ==
    /\ currentState = Fold(Len(timeline))
    /\ OnlyIncreaseAsync =>
          NodeAt(currentState, <<"a">>).value = initialState.value + SumResolved(Len(inv))

\* Two invocations of increaseAsync were in flight together, the second
\* started before the first resolved; both have resolved, with 1 and 2, and
\* the value of a is 3.
C18_Witness ==
    /\ OnlyIncreaseAsync /\ Len(inv) = 2
    /\ inv[1].kind = "resolves" /\ inv[2].kind = "resolves"
    /\ inv[1].amount = 1 /\ inv[2].amount = 2
    /\ \E p \in Pendings(2), r \in Resolveds(1) : p < r
    /\ NodeAt(currentState, <<"a">>).value = 3

\* The places of the timeline where the operation of invocation i dispatched.
OpEntries(i) == {k \in DOMAIN timeline : timeline[k].by = -i}

\* The action at place k is what a creator of the position of invocation i
\* returns for the value that the store's state showed there just before.
FromGetState(i, k) ==
    \E name \in DOMAIN ActionsAt(inv[i].sel) :
        [type |-> timeline[k].type, payload |-> timeline[k].payload] =
            Call(ActionsAt(inv[i].sel)[name],
                 Get(NodeAt(Fold(k - 1), inv[i].sel), "value"))

\* C19: the operation of a thunk is given the store's own dispatch and
\* getState, and every action it dispatches before it settles is on the
\* timeline after the invocation's Pending and before its Resolved or
\* Rejected.
C19_OperationDispatchesInBetween ==
    /\ currentState = Fold(Len(timeline))
    /\ \A i \in DOMAIN inv :
          \A k \in OpEntries(i) :
              /\ Invoked(i) /\ inv[i].invokedAt < k
              /\ \E p \in Pendings(i) : p < k
              /\ \A t \in Terminals(i) : k < t
              /\ FromGetState(i, k)

\* The second invocation of increaseAsync at a found the value 2 that the
\* first had left, dispatched increaseByAmount(2) while it ran, and then
\* resolved: Pending, the operation's action, Resolved, in this order.
C19_Witness ==
    \E i \in DOMAIN inv :
        /\ def = "app" /\ inv[i].sel = <<"a">> /\ inv[i].kind = "resolves" /\ Done(i)
        /\ \E p \in Pendings(i), k \in OpEntries(i), t \in Resolveds(i) :
              /\ p < k /\ k < t
              /\ timeline[k].type = "/a/increaseByAmount"
              /\ timeline[k].payload = Num(2)
              /\ ~timeline[k].threw

====
